---- MODULE Spec2Model ----
(***************************************************************************)
(* Model of the math-tutoring application's orchestration layer:           *)
(*   - the backend action dispatcher (api handler),                        *)
(*   - the frontend service client (services/geminiService.ts),            *)
(*   - the Chat view (components/Chat.tsx).                                *)
(*                                                                         *)
(* Text is modelled as a sequence of symbols.  "LF" is the newline         *)
(* character, "SP" a blank, "BSL" a backslash, "E" a character whose       *)
(* UTF-8 encoding is the two bytes "e1" "e2".  JSON text is a sequence of  *)
(* tokens: "{" "}" "null", the member tokens of an object ("T" introduces  *)
(* the member `"text":"`, followed by the characters of its string value   *)
(* and the closing quote "Q"; "Q" also opens and closes a document that    *)
(* is a string;                                                            *)
(* "P1" "P2" stand for a `problems` member, "F1" "F2" for a `fact` member, *)
(* "S1" for the required members of a solution, "X1" "X2" for an           *)
(* `examples` member, "R1" for an `error` member) and anything else.       *)
(***************************************************************************)
EXTENDS Naturals, Integers, Sequences, FiniteSets, TLC

VARIABLES
    \* ---- backend action dispatcher ----
    req,            \* the request being handled
    hpc,            \* position of the handler
    res,            \* the response object
    providerCalls,  \* provider calls made so far, in order
    exCall,         \* the examples call of generateInitialData
    factCall,       \* the fact call of generateInitialData
    solveCall,      \* the call of solveProblem
    taken,          \* deltas taken from the provider stream so far
    responded,      \* number of responses completed by the dispatcher
    \* ---- frontend service client ----
    call,           \* the client function being executed and its argument
    kpc,            \* position of the client function
    fetched,        \* what fetch produced
    outcome,        \* how the client function's promise settled
    \* ---- Chat view ----
    messages,       \* React state: the message list
    input,          \* React state: the input box
    isStreaming,    \* React state
    cpc,            \* position of handleSend
    sent,           \* arguments of the last streamChatResponse call
    wire,           \* bytes of the response body not yet read
    delivered,      \* bytes of the response body read so far
    records,        \* the deltas the response body carries, one per line
    pending,        \* TextDecoder: bytes of an incomplete character
    buffer,         \* handleSend: buffer
    modelResponseText, \* handleSend: modelResponseText
    cleared,        \* New Chat was used since the last accepted send
    ended,          \* how the last accepted send finished, once it has
    sends,          \* number of accepted sends
    returnedEarly   \* handleSend returned at its guard since the last accepted send

hvars == <<req, hpc, res, providerCalls, exCall, factCall, solveCall, taken,
          responded>>
kvars == <<call, kpc, fetched, outcome>>
cvars == <<messages, input, isStreaming, cpc, sent, wire, delivered, records,
           pending, buffer, modelResponseText, cleared, ended, sends,
           returnedEarly>>
vars == <<hvars, kvars, cvars>>

\* ------------------------------------------------------------------------
\* Bounds
MaxDeltas == 2
MaxRecords == 2
MaxRead == 3
MaxSends == 1

\* ------------------------------------------------------------------------
\* Text helpers (String.prototype.trim, JSON.parse, JSON.stringify)

IsWS(c) == c \in {"SP", "LF"}

RECURSIVE TrimStart(_)
TrimStart(s) ==
    IF s = <<>> THEN <<>>
    ELSE IF IsWS(Head(s)) THEN TrimStart(Tail(s)) ELSE s

RECURSIVE TrimEnd(_)
TrimEnd(s) ==
    IF s = <<>> THEN <<>>
    ELSE IF IsWS(s[Len(s)]) THEN TrimEnd(SubSeq(s, 1, Len(s) - 1)) ELSE s

Trim(s) == TrimEnd(TrimStart(s))

ProblemsTokens == {"P1", "P2"}
ExamplesTokens == {"X1", "X2"}
FactTokens == {"F1", "F2"}
SolutionTokens == {"S1"}
ErrorTokens == {"R1"}
MemberTokens ==
    ProblemsTokens \cup ExamplesTokens \cup FactTokens \cup SolutionTokens
        \cup ErrorTokens

\* the body of a JSON string literal: no raw control character, and a
\* backslash only as the escapes \n, \\ and \"
RECURSIVE ValidString(_)
ValidString(s) ==
    IF s = <<>> THEN TRUE
    ELSE IF Head(s) = "BSL"
         THEN /\ Len(s) >= 2
              /\ s[2] \in {"n", "BSL", "Q"}
              /\ ValidString(SubSeq(s, 3, Len(s)))
         ELSE Head(s) \notin {"LF", "Q"} /\ ValidString(Tail(s))

RECURSIVE Unescape(_)
Unescape(s) ==
    IF s = <<>> THEN <<>>
    ELSE IF Head(s) = "BSL"
         THEN <<(IF s[2] = "n" THEN "LF" ELSE s[2])>>
                 \o Unescape(SubSeq(s, 3, Len(s)))
         ELSE <<Head(s)>> \o Unescape(Tail(s))

RECURSIVE Escape(_)
Escape(s) ==
    IF s = <<>> THEN <<>>
    ELSE IF Head(s) = "LF"
         THEN <<"BSL", "n">> \o Escape(Tail(s))
         ELSE IF Head(s) \in {"BSL", "Q"}
         THEN <<"BSL", Head(s)>> \o Escape(Tail(s))
         ELSE <<Head(s)>> \o Escape(Tail(s))

\* the index of the quote that closes a string literal whose body starts at
\* s[i]; 0 when the literal is not closed
RECURSIVE StringEnd(_, _)
StringEnd(s, i) ==
    IF i > Len(s) THEN 0
    ELSE IF s[i] = "Q" THEN i
    ELSE IF s[i] = "BSL" THEN StringEnd(s, i + 2)
    ELSE StringEnd(s, i + 1)

ParseError == [ok |-> FALSE, kind |-> "none", problems |-> "undefined",
               examples |-> "undefined", fact |-> "undefined",
               solved |-> "undefined", error |-> "undefined",
               hasText |-> FALSE, text |-> <<>>, str |-> <<>>]
JSONNull == [ParseError EXCEPT !.ok = TRUE, !.kind = "null"]
EmptyObject == [ParseError EXCEPT !.ok = TRUE, !.kind = "object"]
\* a document that is a string: reading any property of it gives undefined
JSONString(v) == [ParseError EXCEPT !.ok = TRUE, !.kind = "string", !.str = v]

\* a member of an object read into the value: a later member with the same
\* key replaces an earlier one
SetMember(obj, m) ==
    IF m \in ProblemsTokens THEN [obj EXCEPT !.problems = m]
    ELSE IF m \in ExamplesTokens THEN [obj EXCEPT !.examples = m]
    ELSE IF m \in FactTokens THEN [obj EXCEPT !.fact = m]
    ELSE IF m \in SolutionTokens THEN [obj EXCEPT !.solved = m]
    ELSE [obj EXCEPT !.error = m]

\* the members between the braces of an object, with whitespace allowed
\* around them
RECURSIVE ParseMembers(_, _)
ParseMembers(inner, obj) ==
    IF inner = <<>> THEN obj
    ELSE IF IsWS(Head(inner)) THEN ParseMembers(Tail(inner), obj)
    ELSE IF Head(inner) \in MemberTokens
    THEN ParseMembers(Tail(inner), SetMember(obj, Head(inner)))
    ELSE IF Head(inner) = "T"
    THEN LET q == StringEnd(inner, 2) IN
         IF q = 0 \/ ~ValidString(SubSeq(inner, 2, q - 1)) THEN ParseError
         ELSE ParseMembers(SubSeq(inner, q + 1, Len(inner)),
                           [obj EXCEPT !.hasText = TRUE,
                                       !.text = Unescape(SubSeq(inner, 2, q - 1))])
    ELSE ParseError

\* JSON.parse: ok = FALSE stands for the SyntaxError it throws
JSONParse(s) ==
    LET t == Trim(s) IN
    IF t = <<"null">> THEN JSONNull
    ELSE IF Len(t) >= 2 /\ t[1] = "{" /\ t[Len(t)] = "}"
    THEN ParseMembers(SubSeq(t, 2, Len(t) - 1), EmptyObject)
    ELSE IF Len(t) >= 2 /\ t[1] = "Q"
    THEN IF StringEnd(t, 2) = Len(t) /\ ValidString(SubSeq(t, 2, Len(t) - 1))
         THEN JSONString(Unescape(SubSeq(t, 2, Len(t) - 1)))
         ELSE ParseError
    ELSE ParseError

\* JSON.stringify({ text: chunk.text }): an undefined member is left out
StringifyText(d) ==
    IF d.has THEN <<"{", "T">> \o Escape(d.text) \o <<"Q", "}">>
    ELSE <<"{", "}">>

\* ------------------------------------------------------------------------
\* Backend action dispatcher

Actions == {"generateInitialData", "solveProblem", "chat"}
LangName(language) == IF language = "ar" THEN "Arabic" ELSE "English"

UserTurn(t) == [role |-> "user", text |-> t]
ModelTurn(t) == [role |-> "model", text |-> t]

NoPayload == [present |-> FALSE, language |-> "undefined", problem |-> "undefined",
              history |-> <<>>, hasHistory |-> FALSE, message |-> <<>>]
Payloads ==
    { NoPayload,
      [NoPayload EXCEPT !.present = TRUE],
      [NoPayload EXCEPT !.present = TRUE, !.language = "ar", !.problem = "string",
                        !.hasHistory = TRUE, !.message = <<"a">>],
      [NoPayload EXCEPT !.present = TRUE, !.language = "en", !.problem = "image",
                        !.hasHistory = TRUE,
                        !.history = <<UserTurn(<<"a">>), ModelTurn(<<"E">>)>>,
                        !.message = <<"E">>] }

Requests ==
    [method : {"POST", "GET"}, hasKey : BOOLEAN, hasBody : BOOLEAN,
     action : Actions \cup {"other", "undefined"}, payload : Payloads]

\* response.text of a generateContent result
NoText == [has |-> FALSE, toks |-> <<>>]
Text(toks) == [has |-> TRUE, toks |-> toks]
ProviderTexts ==
    { NoText,
      Text(<<"x">>),
      Text(<<"null">>),
      Text(<<"Q", "a", "Q">>),
      Text(<<"{", "}">>),
      Text(<<"SP", "{", "SP", "P1", "LF", "}", "LF">>),
      Text(<<"{", "P2", "}">>),
      Text(<<"{", "F1", "}">>),
      Text(<<"{", "F2", "P2", "}">>),
      Text(<<"{", "S1", "}">>) }

\* chunk.text of a streamed chunk
Deltas ==
    { [has |-> FALSE, text |-> <<>>],
      [has |-> TRUE, text |-> <<"a">>],
      [has |-> TRUE, text |-> <<"E", "LF">>] }

NoJson == [tag |-> "none", error |-> "none", val |-> ParseError]
ErrorJson(msg) == [NoJson EXCEPT !.tag = "error", !.error = msg]
ValueJson(v) == [NoJson EXCEPT !.tag = "value", !.val = v]

NewResponse == [status |-> 200, headersSent |-> FALSE, contentType |-> "none",
                chunks |-> <<>>, json |-> NoJson, ended |-> FALSE]

\* res.status(code).json(body) on a response whose headers are not sent yet
StatusJson(r, code, body) ==
    [r EXCEPT !.status = code, !.json = body, !.headersSent = TRUE,
              !.ended = TRUE,
              !.contentType = IF r.contentType = "none"
                              THEN "application/json" ELSE r.contentType]

InternalError(kind) == ErrorJson(<<"An internal server error occurred", kind>>)

NoCall == [state |-> "none", text |-> NoText]

GenerateContent(schema, language) ==
    [op |-> "generateContent", schema |-> schema, lang |-> LangName(language),
     history |-> <<>>, message |-> <<>>]

\* history.map(msg => ({ role: msg.role, parts: [{ text: msg.text }] }))
GeminiHistory(history) ==
    [i \in 1..Len(history) |-> [role |-> history[i].role, text |-> history[i].text]]

SendMessageStream(language, history, message) ==
    [op |-> "sendMessageStream", schema |-> "none", lang |-> LangName(language),
     history |-> GeminiHistory(history), message |-> message]

\* the turns the provider is given by a sendMessageStream call: the chat's
\* history followed by the message sent as a user turn
Conversation(c) == c.history \o <<UserTurn(c.message)>>

PromiseAll(a, b) ==
    IF a.state = "fail" \/ b.state = "fail" THEN "rejected"
    ELSE IF a.state = "ok" /\ b.state = "ok" THEN "fulfilled"
    ELSE "pending"

\* the catch block, reached before anything was written
CatchResponse(r, kind) == StatusJson(r, 500, InternalError(kind))

\* generateInitialData after Promise.all fulfilled: parse both texts, respond
InitDataResponseOneSource(r, exText, factText) ==
    IF ~exText.has THEN CatchResponse(r, "TypeError")
    ELSE LET examplesParsed == JSONParse(Trim(exText.toks)) IN
    IF ~examplesParsed.ok THEN CatchResponse(r, "SyntaxError")
    ELSE IF ~factText.has THEN CatchResponse(r, "TypeError")
    ELSE LET factParsed == JSONParse(Trim(factText.toks)) IN
    IF ~factParsed.ok THEN CatchResponse(r, "SyntaxError")
    ELSE IF examplesParsed.kind = "null" \/ factParsed.kind = "null"
    THEN CatchResponse(r, "TypeError")
    ELSE StatusJson(r, 200,
             ValueJson([EmptyObject EXCEPT !.examples = examplesParsed.problems,
                                           !.fact = examplesParsed.fact]))
InitDataResponse(r, exText, factText) ==
    IF ~exText.has THEN CatchResponse(r, "TypeError")
    ELSE LET examplesParsed == JSONParse(Trim(exText.toks)) IN
    IF ~examplesParsed.ok THEN CatchResponse(r, "SyntaxError")
    ELSE IF ~factText.has THEN CatchResponse(r, "TypeError")
    ELSE LET factParsed == JSONParse(Trim(factText.toks)) IN
    IF ~factParsed.ok THEN CatchResponse(r, "SyntaxError")
    ELSE IF examplesParsed.kind = "null" \/ factParsed.kind = "null"
    THEN CatchResponse(r, "TypeError")
    ELSE StatusJson(r, 200,
             ValueJson([EmptyObject EXCEPT !.examples = examplesParsed.problems,
                                           !.fact = factParsed.fact]))

\* solveProblem after the call fulfilled: parse the text, respond
SolveResponse(r, text) ==
    IF ~text.has THEN CatchResponse(r, "TypeError")
    ELSE LET parsed == JSONParse(Trim(text.toks)) IN
    IF ~parsed.ok THEN CatchResponse(r, "SyntaxError")
    ELSE StatusJson(r, 200, ValueJson(parsed))

Finish(r) ==
    /\ res' = r
    /\ hpc' = "done"
    /\ responded' = responded + 1

\* the checks and the switch of the handler, in the order the code makes them
Route(r) ==
    IF r.method /= "POST" THEN "405"
    ELSE IF ~r.hasKey THEN "500"
    ELSE IF ~r.hasBody THEN "throw"
    ELSE IF r.action \in Actions THEN r.action
    ELSE "400"

\* the handler from its entry to its first await or its return
Handler ==
    /\ hpc = "start"
    /\ UNCHANGED <<req, taken, solveCall, kvars, cvars>>
    /\ CASE Route(req) = "405" ->
            /\ Finish(StatusJson(res, 405, ErrorJson(<<"Method Not Allowed">>)))
            /\ UNCHANGED <<providerCalls, exCall, factCall>>
         [] Route(req) = "500" ->
            /\ Finish(StatusJson(res, 500,
                   ErrorJson(<<"API_KEY is not configured on the server.">>)))
            /\ UNCHANGED <<providerCalls, exCall, factCall>>
         [] Route(req) = "throw" ->
            \* destructuring req.body throws outside the try block
            /\ hpc' = "rejected"
            /\ UNCHANGED <<res, responded, providerCalls, exCall, factCall>>
         [] Route(req) = "generateInitialData" ->
            IF ~req.payload.present
            THEN /\ Finish(CatchResponse(res, "TypeError"))
                 /\ UNCHANGED <<providerCalls, exCall, factCall>>
            ELSE /\ providerCalls' = providerCalls \o
                        <<GenerateContent("examples", req.payload.language),
                          GenerateContent("fact", req.payload.language)>>
                 /\ exCall' = [NoCall EXCEPT !.state = "pending"]
                 /\ factCall' = [NoCall EXCEPT !.state = "pending"]
                 /\ hpc' = "initAwait"
                 /\ UNCHANGED <<res, responded>>
         [] Route(req) = "solveProblem" ->
            IF ~req.payload.present \/ req.payload.problem = "undefined"
            THEN /\ Finish(CatchResponse(res, "TypeError"))
                 /\ UNCHANGED <<providerCalls, exCall, factCall>>
            ELSE /\ providerCalls' = Append(providerCalls,
                        GenerateContent("solution", req.payload.language))
                 /\ hpc' = "solveAwait"
                 /\ UNCHANGED <<res, responded, exCall, factCall>>
         [] Route(req) = "chat" ->
            IF ~req.payload.present \/ ~req.payload.hasHistory
            THEN /\ Finish(CatchResponse(res, "TypeError"))
                 /\ UNCHANGED <<providerCalls, exCall, factCall>>
            ELSE /\ providerCalls' = Append(providerCalls,
                        SendMessageStream(req.payload.language,
                                          req.payload.history,
                                          req.payload.message))
                 /\ hpc' = "chatAwait"
                 /\ UNCHANGED <<res, responded, exCall, factCall>>
         [] OTHER ->
            /\ Finish(StatusJson(res, 400, ErrorJson(<<"Invalid action">>)))
            /\ UNCHANGED <<providerCalls, exCall, factCall>>

\* the handler resuming from `await Promise.all([...])`, if it is there
InitDataResume(ex, fact) ==
    IF hpc /= "initAwait" \/ PromiseAll(ex, fact) = "pending"
    THEN UNCHANGED <<hpc, res, responded>>
    ELSE IF PromiseAll(ex, fact) = "rejected"
    THEN Finish(CatchResponse(res, "ProviderError"))
    ELSE Finish(InitDataResponse(res, ex.text, fact.text))

\* the examples call settles
ExamplesSettle ==
    /\ exCall.state = "pending"
    /\ \E c \in {[state |-> "fail", text |-> NoText]} \cup
                [state : {"ok"}, text : ProviderTexts] :
          /\ exCall' = c
          /\ InitDataResume(c, factCall)
    /\ UNCHANGED <<req, providerCalls, factCall, solveCall, taken, kvars, cvars>>

\* the fact call settles
FactSettle ==
    /\ factCall.state = "pending"
    /\ \E c \in {[state |-> "fail", text |-> NoText]} \cup
                [state : {"ok"}, text : ProviderTexts] :
          /\ factCall' = c
          /\ InitDataResume(exCall, c)
    /\ UNCHANGED <<req, providerCalls, exCall, solveCall, taken, kvars, cvars>>

\* the solveProblem call settles and the handler resumes
SolveSettle ==
    /\ hpc = "solveAwait"
    /\ \E c \in {[state |-> "fail", text |-> NoText]} \cup
                [state : {"ok"}, text : ProviderTexts] :
          /\ solveCall' = c
          /\ IF c.state = "fail"
             THEN Finish(CatchResponse(res, "ProviderError"))
             ELSE Finish(SolveResponse(res, c.text))
    /\ UNCHANGED <<req, providerCalls, exCall, factCall, taken, kvars, cvars>>

\* chat.sendMessageStream resolves: the headers are set
ChatStreamOpen ==
    /\ hpc = "chatAwait"
    /\ res' = [res EXCEPT !.contentType = "text/plain; charset=utf-8"]
    /\ hpc' = "chatLoop"
    /\ UNCHANGED <<req, providerCalls, exCall, factCall, solveCall, taken,
                   responded, kvars, cvars>>

\* chat.sendMessageStream rejects
ChatStreamReject ==
    /\ hpc = "chatAwait"
    /\ Finish(CatchResponse(res, "ProviderError"))
    /\ UNCHANGED <<req, providerCalls, exCall, factCall, solveCall, taken,
                   kvars, cvars>>

\* one iteration of `for await (const chunk of stream)`
WriteChunkFirst(r, d) ==
    [r EXCEPT !.chunks = <<StringifyText(d) \o <<"LF">>>> \o @,
              !.headersSent = TRUE]
WriteChunk(r, d) ==
    [r EXCEPT !.chunks = Append(@, StringifyText(d) \o <<"LF">>),
              !.headersSent = TRUE]

ChatDelta ==
    /\ hpc = "chatLoop"
    /\ Len(taken) < MaxDeltas
    /\ \E d \in Deltas :
          /\ taken' = Append(taken, d)
          /\ res' = WriteChunk(res, d)
    /\ UNCHANGED <<req, hpc, providerCalls, exCall, factCall, solveCall,
                   responded, kvars, cvars>>

\* the stream is exhausted: res.end()
ChatStreamEnd ==
    /\ hpc = "chatLoop"
    /\ Finish([res EXCEPT !.ended = TRUE, !.headersSent = TRUE])
    /\ UNCHANGED <<req, providerCalls, exCall, factCall, solveCall, taken,
                   kvars, cvars>>

\* the stream throws while iterated: the catch block runs
\* res.status(500).json(...).  Once a chunk has been written the headers are
\* out: the status assignment no longer reaches the client, and .json(...)
\* either throws (the headers cannot be changed; the handler's promise then
\* rejects with the response left open) or appends the error body and ends
\* the response, depending on the platform's response helpers.
ChatStreamFail ==
    /\ hpc = "chatLoop"
    /\ IF ~res.headersSent
       THEN Finish(CatchResponse(res, "ProviderError"))
       ELSE \/ /\ res' = [res EXCEPT !.status = 500]
               /\ hpc' = "rejected"
               /\ UNCHANGED responded
            \/ Finish([res EXCEPT !.status = 500, !.ended = TRUE,
                                  !.json = InternalError("ProviderError")])
    /\ UNCHANGED <<req, providerCalls, exCall, factCall, solveCall, taken,
                   kvars, cvars>>

HNext ==
    \/ Handler
    \/ ExamplesSettle
    \/ FactSettle
    \/ SolveSettle
    \/ ChatStreamOpen
    \/ ChatStreamReject
    \/ ChatDelta
    \/ ChatStreamEnd
    \/ ChatStreamFail

\* ------------------------------------------------------------------------
\* Frontend service client

ClientFns == {"generateInitialData", "solveProblem", "streamChatResponse"}
Languages == {"en", "ar", "fr"}

\* the action a client function posts
ActionOf(fn) == IF fn = "streamChatResponse" THEN "chat" ELSE fn

NoFallback == [examples |-> <<>>, fact |-> "none"]

\* the content generateInitialData returns from its catch block
FallbackEnglishOnly(language) ==
    [examples |-> <<[id |-> "fallback-1", problem |-> "Solve for x: 3x - 7 = 5"],
                    [id |-> "fallback-2",
                     problem |-> "What is the area of a circle with a radius of 5?"]>>,
     fact |-> "Zero is the only integer that is neither positive nor negative."]
Fallback(language) ==
    [examples |->
        <<[id |-> "fallback-1",
           problem |-> IF language = "ar" THEN "ar: Solve for x: 3x - 7 = 5"
                       ELSE "Solve for x: 3x - 7 = 5"],
          [id |-> "fallback-2",
           problem |-> IF language = "ar"
                       THEN "ar: What is the area of a circle with a radius of 5?"
                       ELSE "What is the area of a circle with a radius of 5?"]>>,
     fact |-> IF language = "ar"
              THEN "ar: Zero is the only integer that is neither positive nor negative."
              ELSE "Zero is the only integer that is neither positive nor negative."]

NoOutcome == [state |-> "pending", kind |-> "none", message |-> <<"none">>,
              val |-> ParseError, fallback |-> NoFallback,
              stream |-> <<>>, hasStream |-> FALSE]
NoFetch == [state |-> "none", ok |-> FALSE, body |-> <<>>, hasStream |-> FALSE]

Resolved(kind) == [NoOutcome EXCEPT !.state = "fulfilled", !.kind = kind]
Rejected(msg) == [NoOutcome EXCEPT !.state = "rejected", !.kind = "error",
                                   !.message = msg]

\* the error postToAction throws for a non-OK response
ApiError(errorBody) == <<"API Error", errorBody.error>>

\* the catch block of each client function; `error` is what was caught
ClientCatchPassThrough(fn, language, error) ==
    IF fn = "generateInitialData"
    THEN [Resolved("fallback") EXCEPT !.fallback = Fallback(language)]
    ELSE Rejected(error)
ClientCatch(fn, language, error) ==
    IF fn = "generateInitialData"
    THEN [Resolved("fallback") EXCEPT !.fallback = Fallback(language)]
    ELSE IF fn = "solveProblem"
    THEN Rejected(<<"Failed to get a valid response from the AI. Please try again.">>)
    ELSE Rejected(<<"Failed to start chat stream.">>)

\* what a client function does with a response whose status is OK:
\* "json" = await response.json(), "stream" = return response.body
OnOkResponse(fn) == IF ActionOf(fn) = "chat" THEN "stream" ELSE "json"

\* bodies of HTTP responses
Bodies ==
    { <<"x">>,
      <<"null">>,
      <<"Q", "a", "Q">>,
      <<"{", "}">>,
      <<"{", "R1", "}">>,
      <<"{", "X1", "F1", "}">>,
      <<"{", "S1", "}">>,
      <<"{", "T", "a", "Q", "}", "LF">> }

FetchOutcomes ==
    { [NoFetch EXCEPT !.state = "rejected"] } \cup
    [state : {"response"}, ok : BOOLEAN, body : Bodies, hasStream : BOOLEAN]

\* fetch settles: postToAction goes on to the response, or the caller's
\* catch block runs
FetchSettle ==
    /\ kpc = "fetch"
    /\ \E f \in FetchOutcomes :
          /\ fetched' = f
          /\ IF f.state = "rejected"
             THEN /\ outcome' = ClientCatch(call.fn, call.language,
                                            <<"TypeError", "Failed to fetch">>)
                  /\ kpc' = "settled"
             ELSE IF ~f.ok
             THEN /\ kpc' = "errorBody"
                  /\ UNCHANGED outcome
             ELSE IF OnOkResponse(call.fn) = "stream"
             THEN /\ outcome' = [Resolved("stream") EXCEPT
                                    !.hasStream = f.hasStream,
                                    !.stream = IF f.hasStream THEN f.body ELSE <<>>]
                  /\ kpc' = "settled"
             ELSE /\ kpc' = "json"
                  /\ UNCHANGED outcome
    /\ UNCHANGED <<call, hvars, cvars>>

\* non-OK response: response.json().catch(...) settles, postToAction throws
ErrorBodySettle ==
    /\ kpc = "errorBody"
    /\ LET parsed == JSONParse(fetched.body)
           errorBody == IF parsed.ok THEN parsed
                        ELSE [EmptyObject EXCEPT
                                 !.error = "Failed to parse error response"]
           thrown == IF errorBody.kind = "null" THEN <<"TypeError", "null">>
                     ELSE ApiError(errorBody)
       IN outcome' = ClientCatch(call.fn, call.language, thrown)
    /\ kpc' = "settled"
    /\ UNCHANGED <<call, fetched, hvars, cvars>>

\* OK response of a JSON action: response.json() settles
JsonSettle ==
    /\ kpc = "json"
    /\ LET parsed == JSONParse(fetched.body) IN
       outcome' = IF parsed.ok
                  THEN [Resolved("value") EXCEPT !.val = parsed]
                  ELSE ClientCatch(call.fn, call.language,
                                   <<"SyntaxError", "Unexpected token">>)
    /\ kpc' = "settled"
    /\ UNCHANGED <<call, fetched, hvars, cvars>>

KNext ==
    \/ FetchSettle
    \/ ErrorBodySettle
    \/ JsonSettle

\* ------------------------------------------------------------------------
\* Chat view

\* TextEncoder: the UTF-8 bytes of a character
Encode(ch) == IF ch = "E" THEN <<"e1", "e2">> ELSE <<ch>>

RECURSIVE EncodeAll(_)
EncodeAll(s) == IF s = <<>> THEN <<>> ELSE Encode(Head(s)) \o EncodeAll(Tail(s))

\* the body of a chat response: the lines the dispatcher writes for the deltas
RECURSIVE ResponseBytes(_)
ResponseBytes(ds) ==
    IF ds = <<>> THEN <<>>
    ELSE EncodeAll(StringifyText(Head(ds)) \o <<"LF">>) \o ResponseBytes(Tail(ds))

\* decoder.decode(value, { stream: true }): the bytes of an incomplete
\* character are kept for the next call; a malformed sequence gives "?"
RECURSIVE Decode(_, _)
Decode(pend, bytes) ==
    IF bytes = <<>> THEN [chars |-> <<>>, pending |-> pend]
    ELSE LET b == Head(bytes) IN
         IF pend = <<"e1">>
         THEN IF b = "e2"
              THEN LET r == Decode(<<>>, Tail(bytes))
                   IN [r EXCEPT !.chars = <<"E">> \o @]
              ELSE LET r == Decode(<<>>, bytes)
                   IN [r EXCEPT !.chars = <<"?">> \o @]
         ELSE IF b = "e1" THEN Decode(<<"e1">>, Tail(bytes))
         ELSE LET r == Decode(<<>>, Tail(bytes))
              IN [r EXCEPT !.chars = <<(IF b = "e2" THEN "?" ELSE b)>> \o @]

\* buffer.split('\n')
RECURSIVE Split(_)
Split(s) ==
    IF \A i \in 1..Len(s) : s[i] /= "LF" THEN <<s>>
    ELSE LET i == CHOOSE k \in 1..Len(s) :
                     s[k] = "LF" /\ \A j \in 1..(k - 1) : s[j] /= "LF"
         IN <<SubSeq(s, 1, i - 1)>> \o Split(SubSeq(s, i + 1, Len(s)))

\* buffer = lines.pop() || '': the incomplete last line stays in the buffer
KeepNothing(parts) == <<>>
KeepIncomplete(parts) == parts[Len(parts)]

\* the lines left in `lines` after the pop
CompleteLines(parts) == SubSeq(parts, 1, Len(parts) - 1)

\* the body of `for (const line of lines)` for one line: the new value of
\* modelResponseText (unchanged when the line is blank, does not parse, or
\* has no truthy text)
ApplyLine(text, line) ==
    IF Trim(line) = <<>> THEN text
    ELSE LET chunk == JSONParse(line) IN
         IF chunk.ok /\ chunk.kind = "object" /\ chunk.hasText /\ chunk.text /= <<>>
         THEN text \o chunk.text
         ELSE text

RECURSIVE ApplyLines(_, _)
ApplyLines(text, lines) ==
    IF lines = <<>> THEN text
    ELSE ApplyLines(ApplyLine(text, Head(lines)), Tail(lines))

\* the updater of setMessages in the loop: the last message gets the text
SetLastText(prev, text) ==
    IF Len(prev) > 0 THEN [prev EXCEPT ![Len(prev)].text = text] ELSE prev

\* the updater of setMessages in the catch block
ReplaceLastByError(prev) ==
    SubSeq(prev, 1, Len(prev) - 1) \o <<ModelTurn(<<"chatError">>)>>

Inputs == { <<>>, <<"SP">>, <<"SP", "E">> }

\* the language of the view, from useLanguage()
ViewLanguages == {"en", "ar"}

RecordSeqs == UNION { [1..n -> Deltas] : n \in 0..MaxRecords }

\* onChange of the input box (disabled while streaming)
TypeInput ==
    /\ ~isStreaming
    /\ \E v \in Inputs : v /= input /\ input' = v
    /\ UNCHANGED <<messages, isStreaming, cpc, sent, wire, delivered, records,
                   pending, buffer, modelResponseText, cleared, ended, sends>>
    /\ UNCHANGED <<returnedEarly, hvars, kvars>>

\* handleNewChat
HandleNewChat ==
    /\ messages' = <<>>
    /\ cleared' = TRUE
    /\ UNCHANGED <<input, isStreaming, cpc, sent, wire, delivered, records,
                   pending, buffer, modelResponseText, ended, sends>>
    /\ UNCHANGED <<returnedEarly, hvars, kvars>>

\* the guard of handleSend: `!input.trim() || isStreaming`
SendIgnoredNoTrim(inp, streaming) == inp = <<>> \/ streaming
SendIgnored(inp, streaming) == Trim(inp) = <<>> \/ streaming

\* handleSend from its entry to its early return or to
\* `await streamChatResponse(...)`
HandleSend ==
    /\ IF SendIgnored(input, isStreaming)
       THEN /\ returnedEarly' = TRUE
            /\ UNCHANGED <<messages, input, isStreaming, cpc, sent, cleared,
                           ended, sends>>
       ELSE /\ sends < MaxSends
            /\ \E language \in ViewLanguages :
                 LET userMessage == UserTurn(input)
                     currentMessages == Append(messages, userMessage)
                 IN /\ messages' = currentMessages
                    /\ sent' = [history |-> currentMessages,
                                message |-> input,
                                language |-> language]
            /\ input' = <<>>
            /\ isStreaming' = TRUE
            /\ cpc' = "awaitStream"
            /\ cleared' = FALSE
            /\ ended' = "none"
            /\ sends' = sends + 1
            /\ returnedEarly' = FALSE
    /\ UNCHANGED <<wire, delivered, records, pending, buffer, modelResponseText>>
    /\ UNCHANGED <<hvars, kvars>>

\* streamChatResponse resolves to a stream: the model placeholder is added
StreamResolve ==
    /\ cpc = "awaitStream"
    /\ \E ds \in RecordSeqs :
          /\ records' = ds
          /\ wire' = ResponseBytes(ds)
    /\ messages' = Append(messages, ModelTurn(<<>>))
    /\ cpc' = "reading"
    /\ UNCHANGED <<input, isStreaming, sent, delivered, pending, buffer,
                   modelResponseText, cleared, ended, sends>>
    /\ UNCHANGED <<returnedEarly, hvars, kvars>>

\* handleSend returns: its locals and the stream are gone
Return ==
    /\ cpc' = "idle"
    /\ wire' = <<>>
    /\ delivered' = <<>>
    /\ records' = <<>>
    /\ pending' = <<>>
    /\ buffer' = <<>>
    /\ modelResponseText' = <<>>

\* the catch and finally blocks
CatchFinally ==
    /\ messages' = ReplaceLastByError(messages)
    /\ isStreaming' = FALSE
    /\ ended' = "error"
    /\ Return

\* streamChatResponse rejects, or resolves to null
StreamReject ==
    /\ cpc = "awaitStream"
    /\ CatchFinally
    /\ UNCHANGED <<input, sent, cleared, sends>>
    /\ UNCHANGED <<returnedEarly, hvars, kvars>>

\* reader.read() resolves with some bytes: one iteration of the while loop
Read ==
    /\ cpc = "reading"
    /\ \E n \in 1..MaxRead :
          /\ n <= Len(wire)
          /\ LET value == SubSeq(wire, 1, n)
                 decoded == Decode(pending, value)
                 parts == Split(buffer \o decoded.chars)
                 text == ApplyLines(modelResponseText, CompleteLines(parts))
             IN /\ wire' = SubSeq(wire, n + 1, Len(wire))
                /\ delivered' = delivered \o value
                /\ pending' = decoded.pending
                /\ buffer' = KeepIncomplete(parts)
                /\ modelResponseText' = text
                /\ messages' = IF text /= modelResponseText
                               THEN SetLastText(messages, text)
                               ELSE messages
    /\ UNCHANGED <<input, isStreaming, cpc, sent, records, cleared, ended, sends>>
    /\ UNCHANGED <<returnedEarly, hvars, kvars>>

\* reader.read() resolves with done: the loop ends, the finally block runs
ReadDone ==
    /\ cpc = "reading"
    /\ wire = <<>>
    /\ isStreaming' = FALSE
    /\ ended' = "done"
    /\ Return
    /\ UNCHANGED <<messages, input, sent, cleared, sends>>
    /\ UNCHANGED <<returnedEarly, hvars, kvars>>

\* reader.read() rejects
ReadFail ==
    /\ cpc = "reading"
    /\ CatchFinally
    /\ UNCHANGED <<input, sent, cleared, sends>>
    /\ UNCHANGED <<returnedEarly, hvars, kvars>>

CNext ==
    \/ TypeInput
    \/ HandleNewChat
    \/ HandleSend
    \/ StreamResolve
    \/ StreamReject
    \/ Read
    \/ ReadDone
    \/ ReadFail

\* ------------------------------------------------------------------------
\* Specifications

\* a request arrives at the dispatcher
HInit ==
    /\ req \in Requests
    /\ hpc = "start"
    /\ res = NewResponse
    /\ providerCalls = <<>>
    /\ exCall = NoCall
    /\ factCall = NoCall
    /\ solveCall = NoCall
    /\ taken = <<>>
    /\ responded = 0
    /\ call = [fn |-> "none", language |-> "en"]
    /\ kpc = "idle"
    /\ fetched = NoFetch
    /\ outcome = NoOutcome
    /\ messages = <<>>
    /\ input = <<>>
    /\ isStreaming = FALSE
    /\ cpc = "idle"
    /\ sent = [history |-> <<>>, message |-> <<>>, language |-> "en"]
    /\ wire = <<>>
    /\ delivered = <<>>
    /\ records = <<>>
    /\ pending = <<>>
    /\ buffer = <<>>
    /\ modelResponseText = <<>>
    /\ cleared = FALSE
    /\ ended = "none"
    /\ sends = 0
    /\ returnedEarly = FALSE

\* a client function is called
KInit ==
    /\ req = [method |-> "GET", hasKey |-> FALSE, hasBody |-> FALSE,
              action |-> "undefined", payload |-> NoPayload]
    /\ hpc = "idle"
    /\ res = NewResponse
    /\ providerCalls = <<>>
    /\ exCall = NoCall
    /\ factCall = NoCall
    /\ solveCall = NoCall
    /\ taken = <<>>
    /\ responded = 0
    /\ call \in [fn : ClientFns, language : Languages]
    /\ kpc = "fetch"
    /\ fetched = NoFetch
    /\ outcome = NoOutcome
    /\ messages = <<>>
    /\ input = <<>>
    /\ isStreaming = FALSE
    /\ cpc = "idle"
    /\ sent = [history |-> <<>>, message |-> <<>>, language |-> "en"]
    /\ wire = <<>>
    /\ delivered = <<>>
    /\ records = <<>>
    /\ pending = <<>>
    /\ buffer = <<>>
    /\ modelResponseText = <<>>
    /\ cleared = FALSE
    /\ ended = "none"
    /\ sends = 0
    /\ returnedEarly = FALSE

\* the Chat view after its first render
CInit ==
    /\ req = [method |-> "GET", hasKey |-> FALSE, hasBody |-> FALSE,
              action |-> "undefined", payload |-> NoPayload]
    /\ hpc = "idle"
    /\ res = NewResponse
    /\ providerCalls = <<>>
    /\ exCall = NoCall
    /\ factCall = NoCall
    /\ solveCall = NoCall
    /\ taken = <<>>
    /\ responded = 0
    /\ call = [fn |-> "none", language |-> "en"]
    /\ kpc = "idle"
    /\ fetched = NoFetch
    /\ outcome = NoOutcome
    /\ messages = <<>>
    /\ input = <<>>
    /\ isStreaming = FALSE
    /\ cpc = "idle"
    /\ sent = [history |-> <<>>, message |-> <<>>, language |-> "en"]
    /\ wire = <<>>
    /\ delivered = <<>>
    /\ records = <<>>
    /\ pending = <<>>
    /\ buffer = <<>>
    /\ modelResponseText = <<>>
    /\ cleared = FALSE
    /\ ended = "none"
    /\ sends = 0
    /\ returnedEarly = FALSE

SpecHandler == HInit /\ [][HNext]_vars
SpecClient == KInit /\ [][KNext]_vars
SpecChat == CInit /\ [][CNext]_vars

\* ------------------------------------------------------------------------
\* Properties of the dispatcher (SpecHandler)

\* a written line is the newline-terminated JSON record {text} of a delta
IsRecordOf(line, d) ==
    /\ Len(line) >= 1
    /\ line[Len(line)] = "LF"
    /\ \A i \in 1..(Len(line) - 1) : line[i] /= "LF"
    /\ LET p == JSONParse(SubSeq(line, 1, Len(line) - 1))
       IN p.ok /\ p.kind = "object" /\ p.hasText = d.has /\ p.text = d.text

\* C1: for a chat action the lines written are, at every moment, one
\* newline-terminated JSON record per delta taken so far, the i-th line being
\* the record of the i-th delta (so a record is written before the next delta
\* is taken, and none is dropped, duplicated or reordered); a write only ever
\* appends the record of the delta just taken, and once the response is ended
\* the response no longer changes.
C1_RecordsFollowDeltas ==
    /\ [](/\ Len(res.chunks) = Len(taken)
          /\ \A i \in 1..Len(taken) : IsRecordOf(res.chunks[i], taken[i]))
    /\ [][/\ res.ended => res' = res
          /\ res'.chunks /= res.chunks =>
                /\ Len(taken') = Len(taken) + 1
                /\ SubSeq(taken', 1, Len(taken)) = taken
                /\ SubSeq(res'.chunks, 1, Len(res.chunks)) = res.chunks]_vars

C1_Witness ==
    /\ req.action = "chat"
    /\ hpc = "done"
    /\ res.ended
    /\ Len(taken) >= 2
    /\ taken[1] /= taken[2]
    /\ Len(res.chunks) = Len(taken)

\* C3 (as claimed): once a record has been written on a chat response the
\* dispatcher sets no status code and sends no JSON error body on it, and
\* when the handler is finished the response has been ended by the
\* dispatcher, exactly once.
C3_StreamedResponseOnlyRecords ==
    (req.action = "chat" /\ res.chunks /= <<>>) =>
        /\ res.status = 200
        /\ res.json = NoJson
        /\ hpc \in {"done", "rejected"} => (res.ended /\ responded = 1)

\* C4 (as claimed): a provider call is made only for a POST request with an
\* API key that names one of the three actions; to every other request the
\* handler responds, without a provider call: 405 to a non-POST request,
\* else 500 when the API key is missing, else 400 'Invalid action'.  A
\* request names an action when it has a body whose action is one of the
\* three.
C4_ValidationOrder ==
    /\ providerCalls /= <<>> =>
          /\ req.method = "POST" /\ req.hasKey
          /\ req.hasBody /\ req.action \in Actions
    /\ (hpc /= "start" /\ req.method /= "POST") =>
          /\ hpc = "done" /\ res.ended /\ res.status = 405
          /\ res.json = ErrorJson(<<"Method Not Allowed">>)
          /\ providerCalls = <<>>
    /\ (hpc /= "start" /\ req.method = "POST" /\ ~req.hasKey) =>
          /\ hpc = "done" /\ res.ended /\ res.status = 500
          /\ res.json = ErrorJson(<<"API_KEY is not configured on the server.">>)
          /\ providerCalls = <<>>
    /\ (hpc /= "start" /\ req.method = "POST" /\ req.hasKey
            /\ ~(req.hasBody /\ req.action \in Actions)) =>
          /\ hpc = "done" /\ res.ended /\ res.status = 400
          /\ res.json = ErrorJson(<<"Invalid action">>)
          /\ providerCalls = <<>>

\* the provider's text is JSON conforming to the call's output schema
Conforms(text, schema) ==
    /\ text.has
    /\ LET p == JSONParse(text.toks) IN
       /\ p.ok
       /\ p.kind = "object"
       /\ schema = "examples" => p.problems /= "undefined"
       /\ schema = "fact" => p.fact /= "undefined"
       /\ schema = "solution" => p.solved /= "undefined"

\* C5 (as claimed): when a generateInitialData or solveProblem call returned
\* text that does not conform to its schema, the finished handler has
\* answered with a 500-class status.
C5_MalformedOutputIs500 ==
    /\ (hpc = "done" /\ solveCall.state = "ok"
            /\ ~Conforms(solveCall.text, "solution")) => res.status >= 500
    /\ (hpc = "done" /\ exCall.state = "ok" /\ factCall.state = "ok"
            /\ (~Conforms(exCall.text, "examples")
                   \/ ~Conforms(factCall.text, "fact"))) => res.status >= 500

\* C8: the two calls of generateInitialData are started in the same step;
\* at most one response is sent; a 200 is sent only when both calls have
\* succeeded and carries the examples call's problems and the fact call's
\* fact; as soon as either call has failed the response is a 500 with an
\* error body and no data.
C8_InitDataParallel ==
    /\ (exCall.state = "none") <=> (factCall.state = "none")
    /\ exCall.state /= "none" =>
          /\ Len(providerCalls) = 2
          /\ providerCalls[1].schema = "examples"
          /\ providerCalls[2].schema = "fact"
    /\ responded <= 1
    /\ (req.action = "generateInitialData" /\ hpc = "done" /\ res.status = 200) =>
          /\ exCall.state = "ok" /\ factCall.state = "ok"
          /\ res.json.tag = "value"
          /\ res.json.val.examples = JSONParse(exCall.text.toks).problems
          /\ res.json.val.fact = JSONParse(factCall.text.toks).fact
    /\ (exCall.state = "fail" \/ factCall.state = "fail") =>
          /\ hpc = "done" /\ responded = 1 /\ res.ended
          /\ res.status = 500
          /\ res.json = InternalError("ProviderError")
    /\ (exCall.state = "pending" \/ factCall.state = "pending") =>
          ~(res.ended /\ res.status = 200)

\* both calls succeeded, the examples call's text has no fact of its own,
\* and the 200 response has each part from its own call
C8_Witness ==
    /\ hpc = "done"
    /\ res.status = 200
    /\ exCall.state = "ok" /\ factCall.state = "ok"
    /\ res.json.val.examples = "P1"
    /\ res.json.val.fact = "F1"
    /\ JSONParse(exCall.text.toks).fact = "undefined"

\* ------------------------------------------------------------------------
\* Properties of the frontend service client (SpecClient)

\* the backend call failed: network error, non-OK status, or (for an action
\* whose body is parsed) an unparseable body
BackendCallFailed ==
    \/ fetched.state = "rejected"
    \/ fetched.state = "response" /\ ~fetched.ok
    \/ fetched.state = "response" /\ call.fn /= "streamChatResponse"
          /\ ~JSONParse(fetched.body).ok

\* C6: generateInitialData never rejects; once settled, if the backend call
\* failed the result is the fallback content (ids fallback-1 and fallback-2,
\* one fact; the Arabic content exactly when the language is 'ar', the
\* English content otherwise), and if it succeeded the result is the parsed
\* body of the response.
C6_InitialDataFallback ==
    call.fn = "generateInitialData" =>
        /\ outcome.state /= "rejected"
        /\ kpc = "settled" =>
              /\ outcome.state = "fulfilled"
              /\ IF BackendCallFailed
                 THEN /\ outcome.kind = "fallback"
                      /\ Len(outcome.fallback.examples) = 2
                      /\ outcome.fallback.examples[1].id = "fallback-1"
                      /\ outcome.fallback.examples[2].id = "fallback-2"
                      /\ outcome.fallback.examples[1].problem =
                            IF call.language = "ar"
                            THEN "ar: Solve for x: 3x - 7 = 5"
                            ELSE "Solve for x: 3x - 7 = 5"
                      /\ outcome.fallback.examples[2].problem =
                            IF call.language = "ar"
                            THEN "ar: What is the area of a circle with a radius of 5?"
                            ELSE "What is the area of a circle with a radius of 5?"
                      /\ outcome.fallback.fact =
                            IF call.language = "ar"
                            THEN "ar: Zero is the only integer that is neither positive nor negative."
                            ELSE "Zero is the only integer that is neither positive nor negative."
                 ELSE /\ outcome.kind = "value"
                      /\ outcome.val = JSONParse(fetched.body)

\* the backend answered 500 with a body that is not JSON, language 'ar'
C6_Witness ==
    /\ call.fn = "generateInitialData"
    /\ call.language = "ar"
    /\ kpc = "settled"
    /\ fetched.state = "response" /\ ~fetched.ok
    /\ ~JSONParse(fetched.body).ok
    /\ outcome.kind = "fallback"

\* C9: solveProblem and streamChatResponse never resolve to fallback
\* content; once settled, if the backend call failed they have rejected with
\* their fixed message, whatever the failure; if it succeeded solveProblem
\* has resolved to the parsed body and streamChatResponse to the response's
\* body stream, unparsed.
C9_NoFallbackFixedMessage ==
    (call.fn \in {"solveProblem", "streamChatResponse"}) =>
        /\ outcome.kind /= "fallback"
        /\ outcome.fallback = NoFallback
        /\ kpc = "settled" =>
              IF BackendCallFailed
              THEN /\ outcome.state = "rejected"
                   /\ outcome.message =
                        IF call.fn = "solveProblem"
                        THEN <<"Failed to get a valid response from the AI. Please try again.">>
                        ELSE <<"Failed to start chat stream.">>
              ELSE /\ outcome.state = "fulfilled"
                   /\ IF call.fn = "solveProblem"
                      THEN /\ outcome.kind = "value"
                           /\ outcome.val = JSONParse(fetched.body)
                      ELSE /\ outcome.kind = "stream"
                           /\ outcome.hasStream = fetched.hasStream
                           /\ fetched.hasStream => outcome.stream = fetched.body

\* a non-OK response with an error body: the rejection does not carry it
C9_Witness ==
    /\ call.fn = "solveProblem"
    /\ kpc = "settled"
    /\ fetched.state = "response" /\ ~fetched.ok
    /\ JSONParse(fetched.body).error = "R1"
    /\ outcome.state = "rejected"

\* ------------------------------------------------------------------------
\* Properties of the Chat view (SpecChat)

\* the number of lines of the response body read so far
LinesRead == Cardinality({i \in 1..Len(delivered) : delivered[i] = "LF"})

\* the texts of the first k records, concatenated in order
RECURSIVE ConcatText(_, _)
ConcatText(ds, k) ==
    IF k = 0 THEN <<>>
    ELSE ConcatText(ds, k - 1) \o (IF ds[k].has THEN ds[k].text ELSE <<>>)

\* C2: while a send is reading the stream and New Chat has not been used,
\* the last message is the model message and its text is the concatenation,
\* in order, of the texts of the records whose terminating newline has been
\* read, however the bytes were split across reads (in particular the full
\* concatenation once the whole body has been read).
C2_TextIsConcatenation ==
    (cpc = "reading" /\ ~cleared) =>
        /\ Len(messages) >= 2
        /\ messages[Len(messages)] = ModelTurn(ConcatText(records, LinesRead))
        /\ messages[Len(messages) - 1].role = "user"

\* the first record has been applied and the second one is split across
\* reads: its first bytes wait in the buffer
C2_Witness ==
    /\ cpc = "reading"
    /\ ~cleared
    /\ Len(records) = 2
    /\ records[1].has /\ records[2].has
    /\ records[1] /= records[2]
    /\ buffer /= <<>>
    /\ messages[Len(messages)].text = records[1].text

\* the turns the provider receives for a send from the Chat view
ChatConversation == Conversation(SendMessageStream(sent.language, sent.history,
                                                   sent.message))

\* C7 (as claimed): while a send awaits its stream (the list then is the
\* earlier turns followed by the new user message), the conversation the
\* provider receives is exactly that list: each turn once, in order.
C7_EachTurnOnce ==
    (cpc = "awaitStream" /\ ~cleared) => ChatConversation = messages

\* C10 (as claimed): after New Chat the list is empty until the next send.
C10_ClearedStaysEmpty ==
    cleared => messages = <<>>

\* C11 (as claimed): once a send has failed (and New Chat has not been used
\* since), the list holds the user message just sent followed by exactly one
\* model error message at its end, and roles alternate starting with user.
C11_ErrorKeepsUserMessage ==
    (cpc = "idle" /\ ended = "error" /\ ~cleared) =>
        /\ Len(messages) >= 2
        /\ messages[Len(messages)] = ModelTurn(<<"chatError">>)
        /\ messages[Len(messages) - 1] = UserTurn(sent.message)
        /\ \A i \in 1..Len(messages) :
              messages[i].role = IF i % 2 = 1 THEN "user" ELSE "model"

\* C12: isStreaming is true exactly while an accepted send is in flight;
\* a send is accepted (a request issued, the user message appended) only
\* when no send is in flight and the input is not blank, and it sets
\* isStreaming; a call of handleSend while isStreaming is true or the input
\* is empty or whitespace only returns without changing the message list or
\* anything else of the view.
C12_OneStreamInFlight ==
    /\ [](isStreaming <=> cpc /= "idle")
    /\ [][/\ (isStreaming \/ Trim(input) = <<>>) =>
                (sends' = sends /\ sent' = sent)
          /\ sends' /= sends =>
                /\ cpc = "idle" /\ ~isStreaming
                /\ isStreaming' /\ cpc' = "awaitStream"
                /\ sends' = sends + 1
          /\ (returnedEarly' /\ ~returnedEarly) =>
                /\ isStreaming \/ Trim(input) = <<>>
                /\ UNCHANGED <<messages, input, isStreaming, cpc, sent, sends>>]_vars

\* handleSend was called while the response was being read and returned at
\* its guard
C12_Witness ==
    /\ returnedEarly
    /\ isStreaming
    /\ cpc = "reading"
    /\ sends = 1
    /\ Len(messages) = 2

====
